---- MODULE Spec2Model ----
(***************************************************************************)
(* State-machine model of the polling core of CommandStation-EX:           *)
(*   - Sensors.cpp : the sensor registry (a singly linked list on the      *)
(*     heap), the round-robin cursor and the debounce counter;             *)
(*   - PCF8574     : the I2C expander's poll state machine.                *)
(***************************************************************************)
EXTENDS Integers, Sequences, FiniteSets

(***************************************************************************)
(* Bounds of the model and program constants                               *)
(***************************************************************************)
\* number of heap blocks calloc can hand out, and of sensor ids in use
MaxSensors == 3

\* Sensors.cpp:111  "latchdelay < 127"
JitterMax == 127

\* port lines of the expander in use (pins 0 .. NPins-1 of the 8)
NPins == 2

\* the tick interval _portTickTime, in clock units
PortTickTime == 2

\* the clock currentMicros wraps at ClockWrap (an unsigned long in the code)
ClockWrap == 8

\* the clock advances by 1 .. MaxAdvance between two calls of _loop
MaxAdvance == 2

NULL == 0
LOW == 0
HIGH == 1

Addr == 1 .. MaxSensors
Ptr == Addr \cup {NULL}
SensorIds == 5 .. (4 + MaxSensors)

\* Wiring of the bench: pin 2 carries a contact that may read either level at
\* any scan; pins 3 and 4 are left released and read HIGH.
RawLevels(pin) == IF pin = 2 THEN {LOW, HIGH} ELSE {HIGH}

\* The <S ID PIN PULLUP> commands of the two scenarios (PULLUP is any int,
\* 0 meaning none).  Debounce scenario: sensor 5 on the contact or on a
\* released pin, sensor 6 on a released pin.  Registry scenario: every id,
\* all on released pins.
BounceIds == {5, 6}
BouncePins(snum) == IF snum = 5 THEN {2, 3} ELSE {3}
QuietPins(snum) == IF snum = 5 THEN {3, 4} ELSE {3}
PullUpArgs(snum) == IF snum = 5 THEN {0, 1, 2} ELSE {1}

(***************************************************************************)
(* State                                                                   *)
(***************************************************************************)
VARIABLES
  \* ---- Sensors.cpp
  firstSensor,    \* Sensor::firstSensor
  readingSensor,  \* Sensor::readingSensor, the round-robin cursor
  allocated,      \* heap blocks currently handed out by calloc
  mem,            \* contents of the heap blocks (struct Sensor)
  out,            \* what the last operation sent to its stream
  uaf,            \* a freed block has been dereferenced
  \* history of the scans (not program state)
  scan,           \* the last checkAll call: record visited, level read, sink
  run,            \* per record: consecutive disagreeing visits (1..128)
  window,         \* records visited by the checkAll calls since the last
                  \* create/remove, at most the last N of them
  expect,         \* the record the sequence order says is scanned next
                  \* (NULL: none known)
  cut,            \* the last create/remove removed the record at the cursor
  call,           \* the last operation called, its arguments and its result
                  \* (kept in the debounce scenario only)
  order           \* the surviving records in the order they were created

sensorVars == <<firstSensor, readingSensor, allocated, mem, out, uaf,
                scan, run, window, expect, cut, call, order>>

VARIABLES
  \* ---- PCF8574
  deviceState,      \* _deviceState
  portInputState,   \* _portInputState
  portOutputState,  \* _portOutputState
  lastLoopEntry,    \* _lastLoopEntry
  requestBlock,     \* requestBlock: its parameters (op) and status
  inputBuffer,      \* inputBuffer[0]
  \* ---- the I2C bus manager and the caller
  bus,              \* transactions issued and not yet completed, in order
  pc,               \* where the device's running handler stands
  callStatus,       \* status of the blocking transaction of that handler
  curMicros,        \* the argument of the running _loop
  readPin,          \* the pin of the running _read
  now,              \* the clock
  result,           \* what the call of _read or _configure that has just
                    \* returned has returned (NoResult after any other step)
  \* history (not program state)
  handled,          \* the completion the last handler call handled
  request,          \* the arguments of the _configure call that has just
                    \* returned
  wrote,            \* the arguments of the last call if it was _write, the
                    \* status of its transaction, and whether a _read of the
                    \* same pin has been called since, as the next call
                    \* (kept in the read-back scenario only)
  lastAdmit,        \* currentMicros of the _loop call that last enqueued
                    \* (-1: none yet)
  completed,        \* the last transaction of the descriptor completed
  sinceAdmit,       \* time since _loop last enqueued, capped
  sinceFail,        \* time since a failed scan was handled, capped; -1: none
  failed            \* a transaction has failed and no probe has succeeded since

expanderVars == <<deviceState, portInputState, portOutputState, lastLoopEntry,
                  requestBlock, inputBuffer, bus, pc, callStatus, curMicros,
                  readPin, now, result, handled, request, wrote, lastAdmit,
                  completed, sinceAdmit, sinceFail, failed>>

vars == <<sensorVars, expanderVars>>

(***************************************************************************)
(* Sensor registry                                                         *)
(***************************************************************************)
\* calloc(1, sizeof(Sensor)): a zeroed block
ZeroSensor ==
  [snum |-> 0, pin |-> 0, pullUp |-> 0, active |-> FALSE,
   latchdelay |-> 0, nextSensor |-> NULL]

NoScan == [addr |-> NULL, raw |-> HIGH, stream |-> FALSE]

\* history: a call of create (ret: the record returned, NULL for none), of
\* remove (ret: 1 for true, 0 for false) or of checkAll; again: the call
\* before it was a create with the same arguments that returned a record
Called(op, snum, pin, pullUp, ret, again) ==
  [op |-> op, snum |-> snum, pin |-> pin, pullUp |-> pullUp, ret |-> ret,
   again |-> again]

NoCall == Called("none", 0, 0, 0, NULL, FALSE)

\* the records reachable from p through nextSensor, in order
RECURSIVE ListFrom(_, _)
ListFrom(p, m) ==
  IF p = NULL THEN <<>> ELSE <<p>> \o ListFrom(m[p].nextSensor, m)

Registry == ListFrom(firstSensor, mem)

Range(s) == {s[i] : i \in 1 .. Len(s)}

\* calloc: the lowest free block, NULL when the heap is exhausted or the
\* allocation fails
Calloc(ok) ==
  IF ok /\ Addr \ allocated # {}
  THEN CHOOSE a \in Addr \ allocated : \A b \in Addr \ allocated : a <= b
  ELSE NULL

\* Sensor::get
RECURSIVE GetFrom(_, _)
GetFrom(p, n) ==
  IF p = NULL THEN NULL
  ELSE IF mem[p].snum = n THEN p
  ELSE GetFrom(mem[p].nextSensor, n)

\* (mutant) the search misses the head of the list
GetSkipHead(n) ==
  IF firstSensor = NULL THEN NULL
  ELSE GetFrom(mem[firstSensor].nextSensor, n)

Get(n) == GetFrom(firstSensor, n)

\* the predecessor pp found by the loop of Sensor::remove
RECURSIVE PrevFrom(_, _, _)
PrevFrom(pp, p, n) ==
  IF p = NULL \/ mem[p].snum = n THEN pp
  ELSE PrevFrom(p, mem[p].nextSensor, n)

\* (mutant) the walk to the tail stops at the head
TailFromHead(p) == p

\* the tail found by the while loop of Sensor::create
RECURSIVE TailFrom(_)
TailFrom(p) ==
  IF mem[p].nextSensor = NULL THEN p ELSE TailFrom(mem[p].nextSensor)

SensorInit ==
  /\ firstSensor = NULL
  /\ readingSensor = NULL
  /\ allocated = {}
  /\ mem = [a \in Addr |-> ZeroSensor]
  /\ out = <<>>
  /\ uaf = FALSE
  /\ scan = NoScan
  /\ run = [a \in Addr |-> 0]
  /\ window = <<>>
  /\ expect = NULL
  /\ cut = FALSE
  /\ call = NoCall
  /\ order = <<>>

\* the fields Sensor::create writes into the record tt
Configure(rec, snum, pin, pullUp) ==
  [rec EXCEPT !.snum = snum, !.pin = pin,
              !.pullUp = IF pullUp = 0 THEN LOW ELSE HIGH,
              !.active = FALSE, !.latchdelay = 0]

\* Sensor::create(snum, pin, pullUp); ok: whether calloc can succeed
Create(snum, pin, pullUp, ok) ==
  LET fresh == Calloc(ok)
      found == IF firstSensor = NULL THEN NULL ELSE Get(snum)
      isNew == firstSensor = NULL \/ found = NULL
      tt    == IF isNew THEN fresh ELSE found
      first1 == IF firstSensor = NULL THEN fresh ELSE firstSensor
      mem1  == IF firstSensor # NULL /\ found = NULL
               THEN [mem EXCEPT ![TailFrom(firstSensor)].nextSensor = fresh]
               ELSE mem
  IN
  /\ firstSensor' = first1
  /\ allocated' = IF isNew /\ fresh # NULL THEN allocated \cup {fresh}
                  ELSE allocated
  /\ mem' = IF tt = NULL THEN mem1
            ELSE [mem1 EXCEPT ![tt] = Configure(mem1[tt], snum, pin, pullUp)]
  /\ run' = IF tt = NULL THEN run ELSE [run EXCEPT ![tt] = 0]
  /\ out' = <<>>
  /\ scan' = NoScan
  /\ window' = <<>>
  /\ cut' = FALSE
  /\ order' = IF isNew /\ fresh # NULL THEN Append(order, fresh) ELSE order
  /\ UNCHANGED <<readingSensor, uaf, expect>>

\* (mutant) remove leaves the cursor on the record it frees
CursorAfterRemoveKeep(tt) == readingSensor

\* (mutant) remove rewinds the cursor to the head of the list
CursorAfterRemoveRewind(tt) ==
  IF readingSensor = tt THEN NULL ELSE readingSensor

\* the cursor after Sensor::remove has unlinked tt
CursorAfterRemove(tt) ==
  IF readingSensor = tt THEN mem[tt].nextSensor ELSE readingSensor

\* history: position of a in the sequence s
IndexOf(s, a) == CHOOSE i \in 1 .. Len(s) : s[i] = a

\* history: the record after a in the sequence s, cyclically
SuccIn(s, a) == s[(IndexOf(s, a) % Len(s)) + 1]

\* history: the record after a among the others of s; NULL if a is alone
SuccAmongOthers(s, a) == IF Len(s) = 1 THEN NULL ELSE SuccIn(s, a)

\* Sensor::remove(n)
Remove(n) ==
  LET tt == Get(n)
      pp == PrevFrom(NULL, firstSensor, n)
  IN
  /\ IF tt = NULL
     THEN /\ cut' = FALSE
          /\ UNCHANGED <<firstSensor, readingSensor, allocated, mem, run,
                         expect>>
     ELSE /\ firstSensor' = IF tt = firstSensor THEN mem[tt].nextSensor
                            ELSE firstSensor
          /\ readingSensor' = CursorAfterRemove(tt)
          /\ allocated' = allocated \ {tt}
          /\ mem' = LET unlinked ==
                           IF tt = firstSensor THEN mem
                           ELSE [mem EXCEPT ![pp].nextSensor =
                                              mem[tt].nextSensor]
                     IN [unlinked EXCEPT ![tt] = ZeroSensor]
          /\ run' = [run EXCEPT ![tt] = 0]
          /\ expect' = IF expect = tt THEN SuccAmongOthers(Registry, tt)
                       ELSE expect
          /\ cut' = (readingSensor = tt)
  /\ out' = <<>>
  /\ scan' = NoScan
  /\ window' = <<>>
  /\ order' = SelectSeq(order, LAMBDA a : a # tt)
  /\ UNCHANGED uaf

\* (mutant) the counter saturates one visit late: "<=" for "<"
DebounceLate(rec, sensorstate, stream) ==
  IF (~sensorstate) = rec.active
  THEN [rec |-> [rec EXCEPT !.latchdelay = 0], sent |-> <<>>]
  ELSE IF rec.latchdelay <= JitterMax
  THEN [rec |-> [rec EXCEPT !.latchdelay = rec.latchdelay + 1],
        sent |-> <<>>]
  ELSE [rec |-> [rec EXCEPT !.active = ~sensorstate, !.latchdelay = 0],
        sent |-> IF stream
                 THEN <<[kind |-> IF ~sensorstate THEN "Q" ELSE "q",
                         id |-> rec.snum]>>
                 ELSE <<>>]

\* (mutant) an agreeing sample does not reset the counter
DebounceNoReset(rec, sensorstate, stream) ==
  IF (~sensorstate) = rec.active
  THEN [rec |-> rec, sent |-> <<>>]
  ELSE IF rec.latchdelay < JitterMax
  THEN [rec |-> [rec EXCEPT !.latchdelay = rec.latchdelay + 1],
        sent |-> <<>>]
  ELSE [rec |-> [rec EXCEPT !.active = ~sensorstate, !.latchdelay = 0],
        sent |-> IF stream
                 THEN <<[kind |-> IF ~sensorstate THEN "Q" ELSE "q",
                         id |-> rec.snum]>>
                 ELSE <<>>]

\* (mutant) without a sink the change is not committed
DebounceSinkOnly(rec, sensorstate, stream) ==
  IF (~sensorstate) = rec.active
  THEN [rec |-> [rec EXCEPT !.latchdelay = 0], sent |-> <<>>]
  ELSE IF rec.latchdelay < JitterMax
  THEN [rec |-> [rec EXCEPT !.latchdelay = rec.latchdelay + 1],
        sent |-> <<>>]
  ELSE IF stream
  THEN [rec |-> [rec EXCEPT !.active = ~sensorstate, !.latchdelay = 0],
        sent |-> <<[kind |-> IF ~sensorstate THEN "Q" ELSE "q",
                    id |-> rec.snum]>>]
  ELSE [rec |-> rec, sent |-> <<>>]

\* the debounce step of Sensor::checkAll on the record rec, sensorstate
\* being the level digitalRead returned and stream whether the sink is
\* non-null: the record afterwards, and what is sent
Debounce(rec, sensorstate, stream) ==
  IF (~sensorstate) = rec.active
  THEN [rec |-> [rec EXCEPT !.latchdelay = 0], sent |-> <<>>]
  ELSE IF rec.latchdelay < JitterMax
  THEN [rec |-> [rec EXCEPT !.latchdelay = rec.latchdelay + 1],
        sent |-> <<>>]
  ELSE [rec |-> [rec EXCEPT !.active = ~sensorstate, !.latchdelay = 0],
        sent |-> IF stream
                 THEN <<[kind |-> IF ~sensorstate THEN "Q" ELSE "q",
                         id |-> rec.snum]>>
                 ELSE <<>>]

\* (mutant) every scan restarts at the head of the list
ScanTargetHead == firstSensor

\* the record Sensor::checkAll scans (the registry is not empty)
ScanTarget == IF readingSensor = NULL THEN firstSensor ELSE readingSensor

\* history: length of the run of disagreeing visits, restarted after 128
RunAfter(r, rec, sensorstate) ==
  IF (~sensorstate) = rec.active THEN 0
  ELSE IF r >= JitterMax + 1 THEN 1 ELSE r + 1

\* history: the last N visits, N the size of the registry
Slide(w, a) ==
  LET w1 == Append(w, a)
  IN IF Len(w1) > Len(Registry) THEN Tail(w1) ELSE w1

\* Sensor::checkAll(stream); stream: whether the sink is non-null
CheckAll(stream) ==
  IF firstSensor = NULL
  THEN /\ out' = <<>>
       /\ scan' = NoScan
       /\ UNCHANGED <<firstSensor, readingSensor, allocated, mem, uaf,
                      run, window, expect, cut, order>>
  ELSE
    LET rs == ScanTarget
    IN
    IF rs \notin allocated
    THEN \* the cursor dangles: reading it is undefined behaviour
         /\ uaf' = TRUE
         /\ readingSensor' \in Ptr
         /\ out' = <<>>
         /\ scan' = NoScan
         /\ UNCHANGED <<firstSensor, allocated, mem, run, window, expect,
                        cut, order>>
    ELSE
      \E raw \in RawLevels(mem[rs].pin) :
        LET sensorstate == (raw = HIGH)
            d == Debounce(mem[rs], sensorstate, stream)
        IN
        /\ mem' = [mem EXCEPT ![rs] = d.rec]
        /\ out' = d.sent
        /\ readingSensor' = mem[rs].nextSensor
        /\ scan' = [addr |-> rs, raw |-> raw, stream |-> stream]
        /\ run' = [run EXCEPT ![rs] = RunAfter(run[rs], mem[rs], sensorstate)]
        /\ window' = Slide(window, rs)
        /\ expect' = IF rs \in Range(Registry) THEN SuccIn(Registry, rs)
                     ELSE NULL
        /\ UNCHANGED <<firstSensor, allocated, uaf, cut, order>>

DoCheckAll ==
  /\ \E stream \in BOOLEAN : CheckAll(stream)
  /\ UNCHANGED call
  /\ UNCHANGED expanderVars

\* what Sensor::create(snum, ...) returns: the record found or allocated
CreateReturns(snum, ok) ==
  IF firstSensor # NULL /\ Get(snum) # NULL THEN Get(snum) ELSE Calloc(ok)

\* ---- debounce scenario (the calls are recorded)
BounceCreate ==
  /\ \E snum \in BounceIds : \E pin \in BouncePins(snum) :
       \E pullUp \in PullUpArgs(snum) : \E ok \in BOOLEAN :
         /\ Create(snum, pin, pullUp, ok)
         /\ call' = Called("create", snum, pin, pullUp,
                           CreateReturns(snum, ok),
                           /\ call.op = "create"
                           /\ <<call.snum, call.pin, call.pullUp>>
                                = <<snum, pin, pullUp>>
                           /\ call.ret # NULL)
  /\ UNCHANGED expanderVars

BounceRemove ==
  /\ \E n \in BounceIds :
       /\ Remove(n)
       /\ call' = Called("remove", n, 0, 0,
                         IF Get(n) = NULL THEN 0 ELSE 1, FALSE)
  /\ UNCHANGED expanderVars

BounceCheckAll ==
  /\ \E stream \in BOOLEAN : CheckAll(stream)
  /\ call' = Called("checkAll", 0, 0, 0, NULL, FALSE)
  /\ UNCHANGED expanderVars

DebounceNext == BounceCreate \/ BounceRemove \/ BounceCheckAll

\* ---- registry scenario
QuietCreate ==
  /\ \E snum \in SensorIds : \E pin \in QuietPins(snum) :
       \E pullUp \in PullUpArgs(snum) : \E ok \in BOOLEAN :
         Create(snum, pin, pullUp, ok)
  /\ UNCHANGED call
  /\ UNCHANGED expanderVars

QuietRemove ==
  /\ \E n \in SensorIds : Remove(n)
  /\ UNCHANGED call
  /\ UNCHANGED expanderVars

RegistryNext == QuietCreate \/ QuietRemove \/ DoCheckAll

(***************************************************************************)
(* PCF8574 expander                                                        *)
(***************************************************************************)
Pins == 0 .. (NPins - 1)

\* what a read of the port may return
PortReadings == {254, 255}

\* byte & (1 << pin), as 0 or 1
Bit(byte, pin) == (byte \div (2 ^ pin)) % 2

\* byte | (1 << pin)
SetBit(byte, pin) == IF Bit(byte, pin) = 1 THEN byte ELSE byte + 2 ^ pin

\* byte & ~(1 << pin)
ClearBit(byte, pin) == IF Bit(byte, pin) = 1 THEN byte - 2 ^ pin ELSE byte

\* history: no _configure call, no _write call
NoRequest == [configType |-> "none", paramCount |-> 0, params |-> <<>>]
NoWrite == [pin |-> -1, value |-> -1, status |-> "NONE", read |-> FALSE]

\* the value a call returns: of _read (0 or 1, for a pin) or of _configure
\* (1 for true, 0 for false)
Returned(fn, pin, value) == [call |-> fn, pin |-> pin, value |-> value]

NoResult == Returned("none", -1, -1)

\* the lifecycle state of a device that has not been probed yet
InitialDeviceState == "Dormant"

\* (mutant) the descriptor is left as it is armed
SetWriteParamsKeep(rb) == rb

\* requestBlock.setWriteParams(_I2CAddress, NULL, 0)
SetWriteParams(rb) == [rb EXCEPT !.op = "write"]

\* requestBlock.setReadParams(_I2CAddress, inputBuffer, sizeof(inputBuffer))
SetReadParams(rb) == [rb EXCEPT !.op = "read"]

ExpanderInit ==
  /\ deviceState = InitialDeviceState
  /\ portInputState = 0
  /\ portOutputState = 0
  /\ lastLoopEntry = 0
  /\ requestBlock = SetWriteParams([op |-> "none", status |-> "OK"])
  /\ inputBuffer = 0
  /\ bus = <<>>
  /\ pc = "idle"
  /\ callStatus = "NONE"
  /\ curMicros = 0
  /\ readPin = 0
  /\ now = 0
  /\ result = NoResult
  /\ handled = "none"
  /\ request = NoRequest
  /\ wrote = NoWrite
  /\ lastAdmit = -1
  /\ completed = "none"
  /\ sinceAdmit = 0
  /\ sinceFail = -1
  /\ failed = FALSE

\* (mutant) _loop does not look at the busy flag
IsBusyNever == FALSE

\* requestBlock.isBusy()
IsBusy == requestBlock.status = "PENDING"

\* I2CManager.queueRequest(&requestBlock): the transaction the descriptor
\* describes joins the queue and the descriptor is busy until it completes
QueuedRequest(rb) ==
  [rb |-> "device", op |-> IF rb.op = "read" THEN "read" ELSE "probe",
   data |-> 0]

\* (mutant) the probe handler writes the default output state
LatchWriteDefault == [rb |-> "call", op |-> "write", data |-> 0]

\* I2CManager.write(_I2CAddress, &_portOutputState, 1): a blocking write of
\* the latch byte as it stands
LatchWrite == [rb |-> "call", op |-> "write", data |-> portOutputState]

\* I2CManager.read(_I2CAddress, &_portInputState, 1, &_portOutputState, 1)
LatchWriteRead(latch) == [rb |-> "call", op |-> "writeread", data |-> latch]

\* history: the clock, saturating
Capped(t) == IF t > PortTickTime + 1 THEN PortTickTime + 1 ELSE t

\* the configuration requests made of the device: a type, CONFIGURE_INPUT
\* or another, and up to two parameters
ConfigTypes == {"CONFIGURE_INPUT", "CONFIGURE_OTHER"}
ParamValues == {0, 1, 2}
ParamLists == {<<>>, <<1, 1>>} \cup {<<v>> : v \in ParamValues}

\* (mutant) an input is accepted whether or not it asks for the pull-up
ConfigureResultAnyInput(configType, paramCount, params) ==
  configType = "CONFIGURE_INPUT" /\ paramCount = 1

\* what PCF8574::_configure returns
ConfigureResult(configType, paramCount, params) ==
  IF configType # "CONFIGURE_INPUT" THEN FALSE
  ELSE IF paramCount = 1 /\ params[1] # 0 THEN TRUE
  ELSE FALSE

\* PCF8574::_configure(vpin, configType, paramCount, params)
ConfigurePin(pin, configType, paramCount, params) ==
  /\ pc = "idle"
  /\ result' = Returned("configure", -1,
                         IF ConfigureResult(configType, paramCount, params)
                         THEN 1 ELSE 0)
  /\ request' = [configType |-> configType, paramCount |-> paramCount,
                 params |-> params]
  /\ wrote' = NoWrite
  /\ UNCHANGED <<deviceState, portInputState, portOutputState, lastLoopEntry,
                 requestBlock, inputBuffer, bus, pc, callStatus, curMicros,
                 readPin, now, handled, lastAdmit, completed, sinceAdmit,
                 sinceFail, failed>>

\* PCF8574::_write(vpin, value), up to the blocking I2CManager.write
Write(pin, value) ==
  /\ pc = "idle"
  /\ portOutputState' = IF value # 0 THEN SetBit(portOutputState, pin)
                        ELSE ClearBit(portOutputState, pin)
  /\ bus' = Append(bus, [rb |-> "call", op |-> "write",
                         data |-> portOutputState'])
  /\ callStatus' = "PENDING"
  /\ pc' = "write"
  /\ handled' = "none"
  /\ result' = NoResult
  /\ request' = NoRequest
  /\ UNCHANGED <<deviceState, portInputState, lastLoopEntry, requestBlock,
                 inputBuffer, curMicros, readPin, now, lastAdmit, completed,
                 sinceAdmit, sinceFail, failed>>

\* PCF8574::_write: I2CManager.write returns
WriteReturn ==
  /\ pc = "write"
  /\ callStatus \in {"OK", "ERR"}
  /\ pc' = "idle"
  /\ callStatus' = "NONE"
  /\ result' = NoResult
  /\ request' = NoRequest
  /\ UNCHANGED <<deviceState, portInputState, portOutputState, lastLoopEntry,
                 requestBlock, inputBuffer, bus, curMicros, readPin, now,
                 handled, lastAdmit, completed, sinceAdmit, sinceFail,
                 failed>>

\* (mutant) _read releases and reads the line on every call
NeedsReleaseAlways(pin) == TRUE

\* !(_portOutputState & mask): the line is driven to zero
NeedsRelease(pin) == Bit(portOutputState, pin) = 0

\* PCF8574::_read(vpin), up to the blocking I2CManager.read if there is one,
\* to its return if there is none
Read(pin) ==
  /\ pc = "idle"
  /\ handled' = "none"
  /\ IF NeedsRelease(pin)
     THEN /\ portOutputState' = SetBit(portOutputState, pin)
          /\ bus' = Append(bus, LatchWriteRead(portOutputState'))
          /\ callStatus' = "PENDING"
          /\ pc' = "read"
          /\ readPin' = pin
          /\ result' = NoResult
     ELSE /\ result' = Returned("read", pin, Bit(portInputState, pin))
          /\ UNCHANGED <<portOutputState, bus, callStatus, pc, readPin>>
  /\ request' = NoRequest
  /\ UNCHANGED <<deviceState, portInputState, lastLoopEntry, requestBlock,
                 inputBuffer, curMicros, now, lastAdmit, completed,
                 sinceAdmit, sinceFail, failed>>

\* PCF8574::_read: I2CManager.read returns its status
ReadReturn ==
  /\ pc = "read"
  /\ callStatus \in {"OK", "ERR"}
  /\ portInputState' = IF callStatus # "OK" THEN 255 ELSE portInputState
  /\ result' = Returned("read", readPin, Bit(portInputState', readPin))
  /\ handled' = IF callStatus # "OK" THEN "readErr" ELSE "readOk"
  /\ failed' = IF callStatus # "OK" THEN TRUE ELSE failed
  /\ pc' = "idle"
  /\ callStatus' = "NONE"
  /\ UNCHANGED <<deviceState, portOutputState, lastLoopEntry, requestBlock,
                 inputBuffer, bus, curMicros, readPin, now, request, wrote,
                 lastAdmit, completed, sinceAdmit, sinceFail>>

\* (mutant) a failed probe leaves the device in Probing
AfterProbeErrorStuck == "Probing"

\* the lifecycle state after a failed probe
AfterProbeError == "Dormant"

\* PCF8574::_loop(currentMicros), its completion handling: from the entry to
\* the tick test, or to the blocking write after a successful probe
LoopEntry(d) ==
  /\ pc = "idle"
  /\ now' = (now + d) % ClockWrap
  /\ curMicros' = now'
  /\ sinceAdmit' = Capped(sinceAdmit + d)
  /\ IF IsBusy
     THEN /\ handled' = "none"
          /\ sinceFail' = IF sinceFail < 0 THEN -1 ELSE Capped(sinceFail + d)
          /\ UNCHANGED <<deviceState, portInputState, bus, pc, callStatus,
                         failed>>
     ELSE
       LET status == requestBlock.status
       IN
       CASE deviceState = "Scanning" ->
              /\ portInputState' = IF status = "OK" THEN inputBuffer ELSE 255
              /\ deviceState' = IF status = "OK" THEN "Normal" ELSE "Dormant"
              /\ handled' = IF status = "OK" THEN "scanOk" ELSE "scanErr"
              /\ sinceFail' = IF status = "OK"
                              THEN (IF sinceFail < 0 THEN -1
                                    ELSE Capped(sinceFail + d))
                              ELSE 0
              /\ failed' = IF status = "OK" THEN failed ELSE TRUE
              /\ pc' = "tick"
              /\ UNCHANGED <<bus, callStatus>>
         [] deviceState = "Probing" ->
              /\ IF status = "OK"
                 THEN /\ bus' = Append(bus, LatchWrite)
                      /\ callStatus' = "PENDING"
                      /\ pc' = "latch"
                      /\ handled' = "probeOk"
                      /\ failed' = FALSE
                      /\ UNCHANGED deviceState
                 ELSE /\ deviceState' = AfterProbeError
                      /\ pc' = "tick"
                      /\ handled' = "probeErr"
                      /\ failed' = TRUE
                      /\ UNCHANGED <<bus, callStatus>>
              /\ sinceFail' = IF sinceFail < 0 THEN -1
                              ELSE Capped(sinceFail + d)
              /\ UNCHANGED portInputState
         [] OTHER ->
              /\ pc' = "tick"
              /\ handled' = "none"
              /\ sinceFail' = IF sinceFail < 0 THEN -1
                              ELSE Capped(sinceFail + d)
              /\ UNCHANGED <<deviceState, portInputState, bus, callStatus,
                             failed>>
  /\ result' = NoResult
  /\ request' = NoRequest
  /\ wrote' = NoWrite
  /\ UNCHANGED <<portOutputState, lastLoopEntry, requestBlock, inputBuffer,
                 readPin, lastAdmit, completed>>

\* PCF8574::_loop after a successful probe: the latch write has returned,
\* the descriptor is armed for reads and the device is Normal
LatchReturn ==
  /\ pc = "latch"
  /\ callStatus \in {"OK", "ERR"}
  /\ requestBlock' = SetReadParams(requestBlock)
  /\ deviceState' = "Normal"
  /\ pc' = "tick"
  /\ callStatus' = "NONE"
  /\ UNCHANGED <<portInputState, portOutputState, lastLoopEntry, inputBuffer,
                 bus, curMicros, readPin, now, result, handled, request,
                 wrote, lastAdmit, completed, sinceAdmit, sinceFail, failed>>

\* (mutant) the tick test passes a unit early: ">=" for ">"
TickElapsedInclusive(currentMicros) ==
  ((currentMicros - lastLoopEntry) % ClockWrap) >= PortTickTime

\* (mutant) the tick test always passes
TickElapsedAlways(currentMicros) == TRUE

\* currentMicros - _lastLoopEntry > _portTickTime, in unsigned arithmetic
TickElapsed(currentMicros) ==
  ((currentMicros - lastLoopEntry) % ClockWrap) > PortTickTime

\* PCF8574::_loop, the tick admission
LoopTick ==
  /\ pc = "tick"
  /\ pc' = "idle"
  /\ IF TickElapsed(curMicros)
     THEN /\ lastLoopEntry' = curMicros
          /\ CASE deviceState = "Normal" ->
                    /\ bus' = Append(bus, QueuedRequest(requestBlock))
                    /\ requestBlock' = [requestBlock EXCEPT
                                          !.status = "PENDING"]
                    /\ deviceState' = "Scanning"
                    /\ lastAdmit' = curMicros
                    /\ sinceAdmit' = 0
                    /\ sinceFail' = -1
               [] deviceState = "Dormant" ->
                    /\ bus' = Append(bus,
                                     QueuedRequest(SetWriteParams(requestBlock)))
                    /\ requestBlock' = [SetWriteParams(requestBlock) EXCEPT
                                          !.status = "PENDING"]
                    /\ deviceState' = "Probing"
                    /\ lastAdmit' = curMicros
                    /\ sinceAdmit' = 0
                    /\ sinceFail' = -1
               [] OTHER ->
                    UNCHANGED <<bus, requestBlock, deviceState, lastAdmit,
                                sinceAdmit, sinceFail>>
     ELSE UNCHANGED <<lastLoopEntry, bus, requestBlock, deviceState,
                      lastAdmit, sinceAdmit, sinceFail>>
  /\ UNCHANGED <<portInputState, portOutputState, inputBuffer, callStatus,
                 curMicros, readPin, now, result, handled, request, wrote,
                 completed, failed>>

\* the bus manager completes the oldest outstanding transaction, with
\* success (byte: what a read returns) or with an error
BusComplete(ok, byte) ==
  /\ bus # <<>>
  /\ bus' = Tail(bus)
  /\ LET t == bus[1]
         st == IF ok THEN "OK" ELSE "ERR"
     IN
     IF t.rb = "device"
     THEN /\ requestBlock' = [requestBlock EXCEPT !.status = st]
          /\ inputBuffer' = IF ok /\ t.op = "read" THEN byte ELSE inputBuffer
          /\ completed' = t.op
          /\ UNCHANGED <<callStatus, portInputState>>
     ELSE /\ callStatus' = st
          /\ portInputState' = IF ok /\ t.op = "writeread" THEN byte
                               ELSE portInputState
          /\ UNCHANGED <<requestBlock, inputBuffer, completed>>
  /\ result' = NoResult
  /\ request' = NoRequest
  /\ UNCHANGED <<deviceState, portOutputState, lastLoopEntry, pc, curMicros,
                 readPin, now, handled, wrote, lastAdmit, sinceAdmit,
                 sinceFail, failed>>

DoWrite ==
  /\ \E pin \in Pins : \E value \in {0, 1} : Write(pin, value)
  /\ UNCHANGED wrote
  /\ UNCHANGED sensorVars

DoWriteReturn == WriteReturn /\ UNCHANGED wrote /\ UNCHANGED sensorVars

DoRead ==
  /\ \E pin \in Pins : Read(pin)
  /\ UNCHANGED wrote
  /\ UNCHANGED sensorVars

\* ---- read-back scenario (the _write calls are recorded)
WriteRecorded ==
  /\ \E pin \in Pins : \E value \in {0, 1} :
       /\ Write(pin, value)
       /\ wrote' = [pin |-> pin, value |-> value, status |-> "PENDING",
                    read |-> FALSE]
  /\ UNCHANGED sensorVars

WriteReturnRecorded ==
  /\ WriteReturn
  /\ wrote' = [wrote EXCEPT !.status = callStatus]
  /\ UNCHANGED sensorVars

ReadRecorded ==
  /\ \E pin \in Pins :
       /\ Read(pin)
       /\ wrote' = IF wrote.pin = pin /\ ~wrote.read
                   THEN [wrote EXCEPT !.read = TRUE]
                   ELSE NoWrite
  /\ UNCHANGED sensorVars

DoReadReturn == ReadReturn /\ UNCHANGED sensorVars

DoLoopEntry ==
  /\ \E d \in 1 .. MaxAdvance : LoopEntry(d)
  /\ UNCHANGED sensorVars

DoLatchReturn == LatchReturn /\ UNCHANGED sensorVars

DoLoopTick == LoopTick /\ UNCHANGED sensorVars

DoBusComplete ==
  /\ \E ok \in BOOLEAN : \E byte \in PortReadings : BusComplete(ok, byte)
  /\ UNCHANGED sensorVars

DoBusFail == BusComplete(FALSE, 255) /\ UNCHANGED sensorVars

DoConfigure ==
  /\ \E pin \in Pins : \E configType \in ConfigTypes :
       \E params \in ParamLists :
         ConfigurePin(pin, configType, Len(params), params)
  /\ UNCHANGED sensorVars

ExpanderNext ==
  \/ DoWrite
  \/ DoWriteReturn
  \/ DoRead
  \/ DoReadReturn
  \/ DoLoopEntry
  \/ DoLatchReturn
  \/ DoLoopTick
  \/ DoBusComplete

\* the lines are written and read back while the device polls
ReadBackNext ==
  \/ WriteRecorded
  \/ WriteReturnRecorded
  \/ ReadRecorded
  \/ DoReadReturn
  \/ DoLoopEntry
  \/ DoLatchReturn
  \/ DoLoopTick
  \/ DoBusComplete

\* the device is configured while it polls
ConfigureNext ==
  \/ DoConfigure
  \/ DoWrite
  \/ DoWriteReturn
  \/ DoLoopEntry
  \/ DoLatchReturn
  \/ DoLoopTick
  \/ DoBusComplete

\* every transaction fails
FailingNext ==
  \/ DoWrite
  \/ DoWriteReturn
  \/ DoRead
  \/ DoReadReturn
  \/ DoLoopEntry
  \/ DoLoopTick
  \/ DoBusFail

\* _loop keeps being called, a blocking call returns once its transaction
\* has completed, and the bus manager completes what it is given
FailingFairness ==
  /\ SF_vars(DoLoopEntry)
  /\ WF_vars(DoLoopTick)
  /\ WF_vars(DoWriteReturn)
  /\ WF_vars(DoReadReturn)
  /\ WF_vars(DoBusFail)


Init == SensorInit /\ ExpanderInit

DebounceSpec == Init /\ [][DebounceNext]_vars

RegistrySpec == Init /\ [][RegistryNext]_vars

ExpanderSpec == Init /\ [][ExpanderNext]_vars

FailingSpec == Init /\ [][FailingNext]_vars /\ FailingFairness

ConfigureSpec == Init /\ [][ConfigureNext]_vars

ReadBackSpec == Init /\ [][ReadBackNext]_vars

(***************************************************************************)
(* Claims about the sensor scanner and registry                            *)
(***************************************************************************)

\* C1: over 128 consecutive visits of a record on which the sampled level
\* disagrees with active (jitterCount 0 at the first), the first 127 visits
\* only count (latchdelay = number of visits so far, active unchanged,
\* nothing sent) and the 128th flips active, resets latchdelay to 0 and
\* sends exactly one event, <Q id> for a line read low, <q id> for high;
\* a visit that agrees afterwards leaves active as it is and sends nothing.
C1_DebounceCommit ==
  \A a \in allocated :
    /\ (run[a] = 0 /\ scan.addr = a) =>
         /\ mem[a].latchdelay = 0
         /\ mem[a].active = (scan.raw = LOW)
         /\ out = <<>>
    /\ run[a] \in 1 .. JitterMax =>
         /\ mem[a].latchdelay = run[a]
         /\ scan.addr = a =>
              /\ out = <<>>
              /\ mem[a].active = (scan.raw = HIGH)
    /\ run[a] = JitterMax + 1 =>
         /\ mem[a].latchdelay = 0
         /\ scan.addr = a =>
              /\ mem[a].active = (scan.raw = LOW)
              /\ scan.stream =>
                   out = <<[kind |-> IF scan.raw = LOW THEN "Q" ELSE "q",
                            id |-> mem[a].snum]>>

\* C1 witness: sensor 5 has just been read low for the 128th time in a row
\* and the one event <Q 5> has been sent.
C1_Witness ==
  \E a \in allocated :
    /\ mem[a].snum = 5
    /\ run[a] = JitterMax + 1
    /\ scan = [addr |-> a, raw |-> LOW, stream |-> TRUE]
    /\ mem[a].active
    /\ out = <<[kind |-> "Q", id |-> 5]>>

\* C2: a checkAll visit flips active or sends an event only if the sample
\* disagrees with active and the 127 visits of that record before it
\* disagreed too; a visit whose sample agrees resets latchdelay to 0, sends
\* nothing and leaves active alone.
C2_NoGlitch ==
  [][\A a \in Addr :
       scan'.addr = a =>
         LET disagree == (scan'.raw = LOW) # mem[a].active
         IN /\ (mem'[a].active # mem[a].active \/ out' # <<>>) =>
                 (disagree /\ run[a] = JitterMax)
            /\ ~disagree =>
                 /\ mem'[a].latchdelay = 0
                 /\ mem'[a].active = mem[a].active
                 /\ out' = <<>>]_vars

\* C2 witness: with two sensors in the registry, a sensor that was active
\* has been read high 128 times in a row and <q id> has been sent.
C2_Witness ==
  \E a \in allocated :
    /\ Len(Registry) = 2
    /\ scan.addr = a
    /\ run[a] = JitterMax + 1
    /\ ~mem[a].active
    /\ out = <<[kind |-> "q", id |-> mem[a].snum]>>

\* C3: with N >= 1 records, the last N checkAll calls since the last
\* create/remove visited every record exactly once, wherever the cursor
\* stood at the first of them; every call visits one record.
C3_RoundRobin ==
  /\ (Len(Registry) >= 1 /\ Len(window) = Len(Registry)) =>
       /\ Range(window) = Range(Registry)
       /\ Cardinality(Range(window)) = Len(window)
  /\ scan.addr # NULL =>
       (window # <<>> /\ window[Len(window)] = scan.addr)

\* C3 witness: three records, three calls, the first of them not at the head.
C3_Witness ==
  /\ Len(Registry) = 3
  /\ Len(window) = 3
  /\ window[1] # firstSensor

\* C4: when remove frees the record the cursor references, the cursor
\* becomes that record's successor (NULL for the tail); every checkAll call
\* visits the record the sequence order says comes next, a round after such
\* a removal visits every surviving record once, and no freed record is read.
C4_RemoveAtCursor ==
  [][/\ \A a \in Addr :
          (a \in allocated /\ a \notin allocated' /\ readingSensor = a) =>
            readingSensor' = mem[a].nextSensor
     /\ (scan'.addr # NULL /\ expect # NULL) => scan'.addr = expect
     /\ (cut' /\ Len(window') = Len(Registry')) =>
          Range(window') = Range(Registry')
     /\ ~uaf']_vars

\* C4 witness: the record at the cursor, in the middle of three, was removed
\* and the two survivors have since been visited, the later one first.
C4_Witness ==
  /\ cut
  /\ Len(Registry) = 2
  /\ Len(window) = 2
  /\ window[1] # firstSensor

\* C5: the cursor is NULL or references a record linked in the registry.
C5_CursorLive ==
  \/ readingSensor = NULL
  \/ (readingSensor \in allocated /\ readingSensor \in Range(Registry))

\* C5 witness: the record at the cursor has just been removed and the cursor
\* references its successor.
C5_Witness ==
  /\ cut
  /\ window = <<>>
  /\ readingSensor # NULL
  /\ readingSensor \in Range(Registry)

\* C14: a create on an id that is in the registry leaves the sequence of
\* records as it is (length and order), and returns the record that carries
\* the id; a create that repeats the arguments of the create before it, which
\* returned a record, returns that record again, at the position it had.
C14_UpsertKeepsSequence ==
  [][call'.op = "create" =>
       /\ Get(call'.snum) # NULL =>
            /\ Registry' = Registry
            /\ allocated' = allocated
            /\ call'.ret = Get(call'.snum)
       /\ call'.again =>
            /\ Len(Registry') = Len(Registry)
            /\ call'.ret = call.ret
            /\ IndexOf(Registry', call'.ret) = IndexOf(Registry, call.ret)]_vars

\* C14 witness: with two records, the create of the second of them has
\* been repeated with the same arguments.
C14_Witness ==
  /\ call.op = "create"
  /\ call.again
  /\ Len(Registry) = 2
  /\ call.ret = Registry[2]

\* C15: no two records of the registry carry the same id, whatever creates
\* (failed allocations included) and removes came before, and the sequence
\* lists the surviving records in the order they were created: a new id is
\* appended at the tail.
C15_UniqueInCreationOrder ==
  /\ \A i, j \in 1 .. Len(Registry) :
       i # j => mem[Registry[i]].snum # mem[Registry[j]].snum
  /\ Registry = order
  /\ Range(Registry) = allocated

\* C15 witness: the middle one of three records was removed and a new id
\* created since, in the block freed: it stands at the tail.
C15_Witness ==
  /\ Registry = <<1, 3, 2>>
  /\ order = <<1, 3, 2>>
  /\ window = <<>>
  /\ mem[2].snum # mem[1].snum

\* C16: a checkAll visit commits (flips active, zeroes latchdelay) exactly
\* when the sample disagrees with active for the 128th visit in a row,
\* whether there is a sink or not; with a sink the commit sends exactly one
\* event, <Q id> if active is now true and <q id> if false, and any other
\* visit sends nothing; without a sink nothing is sent, and active,
\* latchdelay and the cursor are what they are with a sink.
C16_SinkOptional ==
  [][\A a \in Addr :
       scan'.addr = a =>
         LET disagree == (scan'.raw = LOW) # mem[a].active
             commit == disagree /\ run[a] = JitterMax
         IN /\ commit =>
                 /\ mem'[a].active = ~mem[a].active
                 /\ mem'[a].latchdelay = 0
                 /\ out' = IF scan'.stream
                           THEN <<[kind |-> IF mem'[a].active THEN "Q"
                                            ELSE "q",
                                   id |-> mem[a].snum]>>
                           ELSE <<>>
            /\ ~commit =>
                 /\ mem'[a].active = mem[a].active
                 /\ mem'[a].latchdelay = IF disagree THEN run'[a] ELSE 0
                 /\ out' = <<>>
            /\ readingSensor' = mem[a].nextSensor]_vars

\* C16 witness: without a sink, a sensor has been read low for the 128th
\* time in a row: it is active and nothing was sent.
C16_Witness ==
  \E a \in allocated :
    /\ scan = [addr |-> a, raw |-> LOW, stream |-> FALSE]
    /\ run[a] = JitterMax + 1
    /\ mem[a].active
    /\ mem[a].latchdelay = 0
    /\ out = <<>>

\* C19: a create on an id that is in the registry changes only the pin and
\* pullUp of its record: active and latchdelay of that record, the other
\* records, the sequence and the cursor are unchanged and nothing is sent.
C19_UpsertFrame ==
  [][(call'.op = "create" /\ Get(call'.snum) # NULL) =>
       LET tt == Get(call'.snum)
       IN /\ mem'[tt].pin = call'.pin
          /\ mem'[tt].pullUp = (IF call'.pullUp = 0 THEN LOW ELSE HIGH)
          /\ mem'[tt].snum = mem[tt].snum
          /\ mem'[tt].active = mem[tt].active
          /\ mem'[tt].latchdelay = mem[tt].latchdelay
          /\ \A a \in Addr \ {tt} : mem'[a] = mem[a]
          /\ Registry' = Registry
          /\ readingSensor' = readingSensor
          /\ out' = <<>>]_vars

(***************************************************************************)
(* Claims about the expander                                               *)
(***************************************************************************)
\* history: the transactions of the bus issued on the descriptor rb
OnBus(b, rb) == {i \in 1 .. Len(b) : b[i].rb = rb}

\* C6 (as claimed): at most one transaction of the device is outstanding,
\* whichever path issued it.
C6_OneOutstanding == Len(bus) <= 1

\* C6 (amended): at most one transaction is outstanding on the device's own
\* request descriptor (the scan read or probe of _loop) and at most one
\* blocking transaction (of _write, of _read or the latch write after a
\* probe); the latch write is issued with the descriptor idle, but _write
\* and _read do not wait for it, so up to two can be outstanding.
C6_OnePerDescriptor ==
  /\ Cardinality(OnBus(bus, "device")) <= 1
  /\ Cardinality(OnBus(bus, "call")) <= 1
  /\ pc = "latch" => OnBus(bus, "device") = {}

\* C6 witness: a scan read is outstanding and _write has issued its write.
C6_Witness ==
  /\ Len(bus) = 2
  /\ bus[1] = [rb |-> "device", op |-> "read", data |-> 0]
  /\ bus[2].op = "write"
  /\ pc = "write"

\* history: this step is _loop enqueuing a probe
ProbeEnqueued == deviceState = "Dormant" /\ deviceState' = "Probing"

\* history: this step is _loop handling a failed scan
ScanFailureHandled ==
  pc = "idle" /\ now' # now /\ ~IsBusy /\ deviceState = "Scanning"
  /\ requestBlock.status # "OK"

\* C7 (as claimed): a failed scan leaves the device Dormant with
\* inputSample 0xFF, and the probe that follows is enqueued at least one
\* tick interval after the failure is handled, never in the same _loop call.
C7_ProbeAfterFailure ==
  [][/\ ScanFailureHandled =>
          (deviceState' = "Dormant" /\ portInputState' = 255)
     /\ (ProbeEnqueued /\ sinceFail >= 0) =>
          (sinceFail >= PortTickTime /\ handled # "scanErr")]_vars

\* C7 (amended): a failed scan leaves the device Dormant with inputSample
\* 0xFF, and the probe that follows is enqueued more than one tick interval
\* after the failed scan read was enqueued; that may be less than a tick
\* after the failure is handled, and in the same _loop call.
C7_ProbePacedFromAdmission ==
  [][/\ ScanFailureHandled =>
          (deviceState' = "Dormant" /\ portInputState' = 255)
     /\ (ProbeEnqueued /\ sinceFail >= 0) =>
          sinceAdmit > PortTickTime]_vars

\* C7 witness: the _loop call that handled the failed scan has enqueued the
\* probe.
C7_Witness ==
  /\ pc = "idle"
  /\ handled = "scanErr"
  /\ deviceState = "Probing"
  /\ portInputState = 255
  /\ OnBus(bus, "device") # {}

\* C8: a failed scan read, probe or read of _read leaves the device Dormant
\* with inputSample 0xFF, and inputSample stays 0xFF until a probe succeeds.
C8_FailSafe ==
  /\ failed => portInputState = 255
  /\ (pc = "tick" /\ handled \in {"scanErr", "probeErr"}) =>
       deviceState = "Dormant"
  /\ (pc = "idle" /\ handled = "readErr") => deviceState = "Dormant"

\* C9: when _loop finds the probe completed successfully it issues a write of
\* the latch byte as it stands and is not Normal yet; the device enters
\* Normal only when that write has returned, with the descriptor armed as a
\* read; a scan read is enqueued only from Normal.
C9_LatchRestored ==
  [][/\ (pc = "idle" /\ now' # now /\ ~IsBusy /\ deviceState = "Probing"
         /\ requestBlock.status = "OK") =>
          /\ bus' = Append(bus, [rb |-> "call", op |-> "write",
                                 data |-> portOutputState])
          /\ portOutputState' = portOutputState
          /\ pc' = "latch"
          /\ deviceState' = "Probing"
          /\ OnBus(bus', "device") = {}
     /\ (deviceState = "Probing" /\ deviceState' = "Normal") =>
          /\ pc = "latch"
          /\ callStatus \in {"OK", "ERR"}
          /\ requestBlock'.op = "read"
     /\ (\E i \in OnBus(bus', "device") : bus'[i].op = "read"
         /\ OnBus(bus, "device") = {}) =>
          (deviceState = "Normal" /\ requestBlock.op = "read")]_vars

\* C9 witness: the probe has succeeded and the latch byte written is 3, set
\* by _write or _read since the device was created.
C9_Witness ==
  /\ pc = "latch"
  /\ handled = "probeOk"
  /\ portOutputState = 3
  /\ bus = <<[rb |-> "call", op |-> "write", data |-> 3]>>

\* C10: when every transaction fails and _loop keeps being called, the
\* device is never Normal or Scanning, is Dormant again and again and
\* enqueues a probe again and again.
C10_ProbesForever ==
  /\ [](deviceState \notin {"Normal", "Scanning"})
  /\ []<>(deviceState = "Dormant")
  /\ []<>(/\ deviceState = "Probing"
          /\ \E i \in OnBus(bus, "device") : bus[i].op = "probe")

\* C10 witness: a probe has failed, the device is Dormant again and the
\* tick test of that _loop call is next.
C10_Witness ==
  /\ pc = "tick"
  /\ handled = "probeErr"
  /\ deviceState = "Dormant"
  /\ failed

\* C11: _read of a line whose latch bit is 1 issues no transaction, leaves
\* the latch as it is and returns that line's bit of inputSample; _read of a
\* line whose latch bit is 0 sets that bit, and no other, and issues exactly
\* one transaction, which writes the latch byte and then reads the port; it
\* issues nothing more when that transaction has completed.
C11_ReadReleasesOnce ==
  [][/\ (pc = "idle" /\ result'.call = "read") =>
          /\ Bit(portOutputState, result'.pin) = 1
          /\ bus' = bus
          /\ portOutputState' = portOutputState
          /\ portInputState' = portInputState
          /\ pc' = "idle"
          /\ result'.value = Bit(portInputState, result'.pin)
     /\ (pc = "idle" /\ pc' = "read") =>
          /\ Bit(portOutputState, readPin') = 0
          /\ portOutputState' = portOutputState + 2 ^ readPin'
          /\ bus' = Append(bus, [rb |-> "call", op |-> "writeread",
                                 data |-> portOutputState'])
     /\ (pc = "read" /\ pc' = "idle") =>
          /\ bus' = bus
          /\ portOutputState' = portOutputState
          /\ result' = Returned("read", readPin,
                                Bit(portInputState', readPin))]_vars

\* C11 witness: line 0, released by an earlier _read that read it low, has
\* been read again: no transaction, and the low bit of inputSample returned.
C11_Witness ==
  /\ pc = "idle"
  /\ handled = "none"
  /\ result = Returned("read", 0, 0)
  /\ Bit(portOutputState, 0) = 1
  /\ portInputState = 254
  /\ bus = <<>>

\* C12: a _read that follows a _write(pin, V) of the same line, with no call
\* between them and the write's transaction completed without error,
\* returns V.
C12_WriteReadBack ==
  (/\ result.call = "read"
   /\ wrote.read
   /\ wrote.pin = result.pin
   /\ wrote.status = "OK") =>
    result.value = wrote.value

\* C13: _configure returns true exactly for CONFIGURE_INPUT with one
\* parameter that is not zero, and it changes nothing: the latch,
\* inputSample, the lifecycle state, the descriptor and the transactions
\* outstanding are what they were.
C13_ConfigureContract ==
  [][result'.call = "configure" =>
       /\ result'.value = IF /\ request'.configType = "CONFIGURE_INPUT"
                             /\ request'.paramCount = 1
                             /\ request'.params[1] # 0
                          THEN 1 ELSE 0
       /\ UNCHANGED <<deviceState, portInputState, portOutputState,
                      lastLoopEntry, requestBlock, inputBuffer, bus, pc,
                      callStatus>>]_vars

\* C13 witness: while a scan read is outstanding and the latch is not zero,
\* an input without pull-up has been asked for and refused.
C13_Witness ==
  /\ request = [configType |-> "CONFIGURE_INPUT", paramCount |-> 1,
                params |-> <<0>>]
  /\ result = Returned("configure", -1, 0)
  /\ deviceState = "Scanning"
  /\ portOutputState # 0
  /\ OnBus(bus, "device") # {}

\* C17: a _loop call that finds the descriptor busy changes neither the
\* lifecycle state, inputSample, the latch, the last-tick timestamp nor the
\* descriptor and enqueues nothing, however long ago the last tick was; as
\* long as the descriptor stays busy the device stays in the state it is in,
\* Scanning or Probing.
C17_BusyLoopIdle ==
  [][/\ (pc = "idle" /\ now' # now /\ requestBlock.status = "PENDING") =>
          /\ UNCHANGED <<deviceState, portInputState, portOutputState,
                         lastLoopEntry, requestBlock, inputBuffer, bus>>
          /\ pc' = "idle"
     /\ (requestBlock.status = "PENDING"
         /\ requestBlock'.status = "PENDING") =>
          /\ deviceState' = deviceState
          /\ deviceState \in {"Scanning", "Probing"}]_vars

\* C17 witness: _loop has returned on a busy descriptor although more than a
\* tick interval has passed since the last admission.
C17_Witness ==
  /\ pc = "idle"
  /\ handled = "none"
  /\ requestBlock.status = "PENDING"
  /\ deviceState = "Scanning"
  /\ curMicros = now
  /\ ((curMicros - lastLoopEntry) % ClockWrap) > PortTickTime
  /\ sinceAdmit > PortTickTime

\* history: the tick interval has passed since the last admission, on the
\* wrapping clock
SinceAdmission == (curMicros - lastAdmit) % ClockWrap

\* C18: _loop enqueues on the descriptor only in its tick admission and,
\* after the first time, only when currentMicros is more than a tick
\* interval past the currentMicros of the last admission (modulo the wrap of
\* the clock); and a _loop call that reaches its tick admission that long
\* after the last one enqueues exactly one transaction, a read if the device
\* is Normal and a probe if it is Dormant.
C18_TickAdmission ==
  [][/\ (pc = "tick" /\ pc' = "idle" /\ lastAdmit >= 0) =>
          IF SinceAdmission > PortTickTime
          THEN /\ deviceState \in {"Normal", "Dormant"}
               /\ bus' = Append(bus,
                                [rb |-> "device",
                                 op |-> IF deviceState = "Normal" THEN "read"
                                        ELSE "probe",
                                 data |-> 0])
               /\ requestBlock'.status = "PENDING"
          ELSE /\ bus' = bus
               /\ requestBlock' = requestBlock
     /\ Cardinality(OnBus(bus', "device")) > Cardinality(OnBus(bus, "device"))
          => /\ pc = "tick"
             /\ requestBlock.status # "PENDING"
             /\ lastAdmit >= 0 => SinceAdmission > PortTickTime]_vars

\* C18 witness: a transaction has been admitted at currentMicros 0, after
\* the clock has wrapped.
C18_Witness ==
  /\ pc = "idle"
  /\ lastAdmit = 0
  /\ curMicros = 0
  /\ completed # "none"
  /\ deviceState = "Scanning"
  /\ OnBus(bus, "device") # {}

\* C20: while the descriptor is busy the device is Scanning or Probing, with
\* one transaction of the descriptor outstanding, a read in Scanning and a
\* probe in Probing; and when _loop can find the device Scanning or Probing
\* with the descriptor idle, the transaction that completed last is that
\* read, or that probe.
C20_BusyMeansPolling ==
  /\ requestBlock.status = "PENDING" =>
       /\ deviceState \in {"Scanning", "Probing"}
       /\ \E i \in 1 .. Len(bus) :
            /\ OnBus(bus, "device") = {i}
            /\ bus[i].op = IF deviceState = "Scanning" THEN "read"
                            ELSE "probe"
  /\ requestBlock.status # "PENDING" =>
       /\ OnBus(bus, "device") = {}
       /\ deviceState = "Scanning" => completed = "read"
       /\ deviceState = "Probing" => completed = "probe"

\* C20 witness: the scan read has completed with an error that _loop has
\* not handled yet, while a _write is waiting for its transaction.
C20_Witness ==
  /\ deviceState = "Scanning"
  /\ requestBlock.status = "ERR"
  /\ completed = "read"
  /\ pc = "write"
  /\ Len(bus) = 1

====
